---------------------------- MODULE Spec2Model ----------------------------
(***************************************************************************)
(* BLS dashboard pipeline: BLSDataFetcher.fetch_data / _process_data       *)
(* (data_fetcher.py), calculate_changes / get_latest_metrics (utils.py)    *)
(* and load_data (app.py).                                                 *)
(*                                                                         *)
(* Text is a sequence of one-character strings, so that Python's string    *)
(* comparison, slicing and int()/float() are computed, not assumed.        *)
(* A DataFrame is [cols, rows]: cols says whether it has any column        *)
(* (pd.DataFrame() and pd.DataFrame([]) have none), rows is its rows in    *)
(* positional order.  A float is [isnan, v]; NaN is pandas' null.          *)
(***************************************************************************)
EXTENDS Integers, Sequences, FiniteSets, TLC

VARIABLES
    pc,         \* position of the caller: see the actions
    response,   \* what requests.post / raise_for_status / response.json() deliver
    raw,        \* the table fetch_data returned, or the table handed to calculate_changes
    loaded,     \* the table load_data returned (calculate_changes' output when called)
    propagated, \* class of an exception that left fetch_data, "none" otherwise
    printed,    \* the lines fetch_data printed
    lookup,     \* the series name of the last get_latest_metrics call
    latest      \* outcome of the last get_latest_metrics call

vars == <<pc, response, raw, loaded, propagated, printed, lookup, latest>>

-----------------------------------------------------------------------------
(* Bounds of the model *)

\* size of one upstream response: its series entries plus their observations
MaxSize == 4
\* rows of an arbitrary (unsorted) table handed to calculate_changes
MaxSmall == 3
\* rows per series of a long monthly table handed to calculate_changes
MaxRows == 14
\* length of the repeating value pattern of a long table
SeedLen == 2

-----------------------------------------------------------------------------
(* Python text *)

Digits == {"0", "1", "2", "3", "4", "5", "6", "7", "8", "9"}

\* code point of a character, as Python compares str
Ord(c) ==
    CASE c = "-" -> 45
      [] c = "0" -> 48 [] c = "1" -> 49 [] c = "2" -> 50 [] c = "3" -> 51
      [] c = "4" -> 52 [] c = "5" -> 53 [] c = "6" -> 54 [] c = "7" -> 55
      [] c = "8" -> 56 [] c = "9" -> 57
      [] c = "A" -> 65 [] c = "M" -> 77
      [] c = "a" -> 97 [] c = "n" -> 110

DigitVal(c) == Ord(c) - Ord("0")

\* a <= b for Python str: lexicographic by code point, a proper prefix is smaller
RECURSIVE StrLE(_, _)
StrLE(a, b) ==
    IF a = <<>> THEN TRUE
    ELSE IF b = <<>> THEN FALSE
    ELSE IF Ord(Head(a)) < Ord(Head(b)) THEN TRUE
    ELSE IF Ord(Head(a)) > Ord(Head(b)) THEN FALSE
    ELSE StrLE(Tail(a), Tail(b))

AllDigits(s) == Len(s) > 0 /\ \A i \in 1..Len(s) : s[i] \in Digits

RECURSIVE DecimalValue(_)
DecimalValue(s) ==
    IF s = <<>> THEN 0
    ELSE DecimalValue(SubSeq(s, 1, Len(s) - 1)) * 10 + DigitVal(s[Len(s)])

\* int(s) on text of this alphabet: decimal digits give the number, anything
\* else raises ValueError
PyInt(s) ==
    IF AllDigits(s) THEN [exc |-> "none", v |-> DecimalValue(s)]
    ELSE [exc |-> "ValueError", v |-> 0]

NaN == [isnan |-> TRUE, v |-> 0]
Num(n) == [isnan |-> FALSE, v |-> n]

\* float(x): digits give the number, "nan" gives NaN, other text raises
\* ValueError, and a JSON null (None) raises TypeError
PyFloat(x) ==
    IF x.t = "null" THEN [exc |-> "TypeError", f |-> NaN]
    ELSE IF AllDigits(x.s) THEN [exc |-> "none", f |-> Num(DecimalValue(x.s))]
    ELSE IF x.s = <<"n", "a", "n">> THEN [exc |-> "none", f |-> NaN]
    ELSE [exc |-> "ValueError", f |-> NaN]

-----------------------------------------------------------------------------
(* Dates and series names *)

\* pd.to_datetime of f"{year}-{month:02d}-01": a Timestamp for months 1..12,
\* a parse error for any other month number
ValidMonth(m) == m \in 1..12

DateOf(y, m) == [year |-> y, month |-> m, day |-> 1]

DateLT(d, e) ==
    \/ d.year < e.year
    \/ d.year = e.year /\ d.month < e.month
    \/ d.year = e.year /\ d.month = e.month /\ d.day < e.day

DateLE(d, e) == d = e \/ DateLT(d, e)

\* self.series_map
series_map ==
    [id \in {"LNS14000000", "CES0000000001", "CES0500000003", "CUSR0000SA0"} |->
        CASE id = "LNS14000000" -> "Unemployment Rate"
          [] id = "CES0000000001" -> "Total Nonfarm Employment"
          [] id = "CES0500000003" -> "Average Hourly Earnings"
          [] id = "CUSR0000SA0" -> "CPI (Seasonally Adjusted)"]

\* self.series_map.get(series_id, series_id)
SeriesNameOf(id) == IF id \in DOMAIN series_map THEN series_map[id] ELSE id

\* position of a series name in Python's str order, for the names that occur
NameRank(n) ==
    CASE n = "Average Hourly Earnings" -> 1
      [] n = "CPI (Seasonally Adjusted)" -> 2
      [] n = "LNS12000000" -> 3
      [] n = "Total Nonfarm Employment" -> 4
      [] n = "Unemployment Rate" -> 5

-----------------------------------------------------------------------------
(* DataFrames *)

\* pd.DataFrame()
EmptyFrame == [cols |-> FALSE, rows |-> <<>>]

\* df.empty
IsEmpty(df) == ~df.cols \/ df.rows = <<>>

\* the strict order of sort_values(by): by 'Date', or by ['Series Name', 'Date']
Before(by, r, q) ==
    IF by = "Date" THEN DateLT(r.Date, q.Date)
    ELSE \/ NameRank(r.SeriesName) < NameRank(q.SeriesName)
         \/ r.SeriesName = q.SeriesName /\ DateLT(r.Date, q.Date)

RECURSIVE InsertBy(_, _, _)
\* insert r into the sorted sequence s after every element not greater than it
InsertBy(by, s, r) ==
    IF s = <<>> THEN <<r>>
    ELSE IF Before(by, r, Head(s)) THEN <<r>> \o s
    ELSE <<Head(s)>> \o InsertBy(by, Tail(s), r)

RECURSIVE sort_values(_, _)
\* df.sort_values(by) as a stable sort: rows with equal keys keep their order
sort_values(by, s) ==
    IF s = <<>> THEN <<>>
    ELSE InsertBy(by, sort_values(by, SubSeq(s, 1, Len(s) - 1)), s[Len(s)])

Reverse(s) == [i \in 1..Len(s) |-> s[Len(s) + 1 - i]]

RECURSIVE RowsOfSeries(_, _)
\* df[df['Series Name'] == name]: the rows of the series, in their order
RowsOfSeries(s, name) ==
    IF s = <<>> THEN <<>>
    ELSE IF Head(s).SeriesName = name THEN <<Head(s)>> \o RowsOfSeries(Tail(s), name)
    ELSE RowsOfSeries(Tail(s), name)

-----------------------------------------------------------------------------
(* BLSDataFetcher._process_data *)

M01 == <<"M", "0", "1">>
M12 == <<"M", "1", "2">>

NoRows == [exc |-> "none", rows |-> <<>>]

\* lines 67-83 with month = int(period[1:]), fl = float(value) and
\* year = int(year) evaluated: the entries appended to all_data (none or one),
\* or the exception raised
AppendRow(series_id, month, fl, year) ==
    IF month.exc # "none" THEN [exc |-> month.exc, rows |-> <<>>]
    ELSE IF fl.exc = "ValueError" THEN NoRows
    ELSE IF fl.exc # "none" THEN [exc |-> fl.exc, rows |-> <<>>]
    ELSE IF year.exc # "none" THEN [exc |-> year.exc, rows |-> <<>>]
    ELSE [exc |-> "none",
          rows |-> << [SeriesID |-> series_id,
                       SeriesName |-> SeriesNameOf(series_id),
                       Date |-> DateOf(year.v, month.v),
                       Value |-> fl.f,
                       Year |-> year.v,
                       Month |-> month.v] >>]

\* 'M01' <= period <= 'M12'
InMonthlyRange(period) == StrLE(M01, period) /\ StrLE(period, M12)

\* the body of the inner loop for one observation
ProcessItem(series_id, item) ==
    IF InMonthlyRange(item.period)
    THEN AppendRow(series_id, PyInt(Tail(item.period)), PyFloat(item.value), PyInt(item.year))
    ELSE NoRows

\* one iteration, then the rest of the loop: an exception ends the loop, and
\* otherwise all_data grows by what each appended
Then(first, rest) ==
    IF first.exc # "none" THEN first
    ELSE [exc |-> rest.exc, rows |-> first.rows \o rest.rows]

RECURSIVE ProcessItems(_, _)
\* for item in series['data']
ProcessItems(series_id, data) ==
    IF data = <<>> THEN NoRows
    ELSE Then(ProcessItem(series_id, Head(data)), ProcessItems(series_id, Tail(data)))

RECURSIVE ProcessSeries(_)
\* for series in json_data['Results']['series']
ProcessSeries(list) ==
    IF list = <<>> THEN NoRows
    ELSE Then(ProcessItems(Head(list).seriesID, Head(list).data), ProcessSeries(Tail(list)))

\* lines 85-90 on all_data = [exc, rows]: pd.DataFrame(all_data), to_datetime
\* (which raises on a month that is none) and the sort
BuildFrame(all_data) ==
    IF all_data.exc # "none" THEN [exc |-> all_data.exc, df |-> EmptyFrame]
    ELSE IF all_data.rows = <<>> THEN [exc |-> "none", df |-> EmptyFrame]
    ELSE IF \E i \in 1..Len(all_data.rows) : ~ValidMonth(all_data.rows[i].Month)
         THEN [exc |-> "ValueError", df |-> EmptyFrame]
    ELSE [exc |-> "none",
          df |-> [cols |-> TRUE, rows |-> sort_values("Series Name, Date", all_data.rows)]]

\* returns [exc, df]: the exception _process_data raises, or the frame it returns
_process_data(json_data) ==
    IF json_data.results = "absent" THEN [exc |-> "none", df |-> EmptyFrame]
    ELSE IF json_data.results = "null" THEN [exc |-> "TypeError", df |-> EmptyFrame]
    ELSE IF json_data.results = "no_series" THEN [exc |-> "none", df |-> EmptyFrame]
    ELSE BuildFrame(ProcessSeries(json_data.series))

-----------------------------------------------------------------------------
(* BLSDataFetcher.fetch_data *)

\* the classes `except Exception` catches
CaughtClasses ==
    {"ConnectionError", "HTTPError", "JSONDecodeError", "KeyError", "TypeError", "ValueError"}

\* the outcome p of _process_data, after the lines msgs were printed
Printed(p, msgs) == [exc |-> p.exc, df |-> p.df, printed |-> msgs]

\* the try block, lines 34-44: [exc, df, printed]
FetchTry(resp) ==
    IF resp.kind # "json" THEN [exc |-> resp.kind, df |-> EmptyFrame, printed |-> <<>>]
    ELSE IF resp.body.status = "absent"
         THEN [exc |-> "KeyError", df |-> EmptyFrame, printed |-> <<>>]
    ELSE IF resp.body.status = "REQUEST_SUCCEEDED"
         THEN Printed(_process_data(resp.body), <<>>)
    ELSE IF ~resp.body.message
         THEN [exc |-> "KeyError", df |-> EmptyFrame, printed |-> <<>>]
    ELSE Printed(_process_data(resp.body), <<"API Error">>)

\* FetchExcept as `except requests.RequestException` would be: the errors of
\* the HTTP call are caught, a KeyError, TypeError or ValueError leaves fetch_data
FetchExceptRequestsOnly(t) ==
    IF t.exc \in {"ConnectionError", "HTTPError", "JSONDecodeError"}
    THEN [exc |-> "none", df |-> EmptyFrame,
          printed |-> Append(t.printed, "Error fetching data")]
    ELSE t

\* the except clause, lines 46-48, on the outcome t of the try block
FetchExcept(t) ==
    IF t.exc = "none" THEN t
    ELSE IF t.exc \in CaughtClasses
    THEN [exc |-> "none", df |-> EmptyFrame,
          printed |-> Append(t.printed, "Error fetching data")]
    ELSE t

\* fetch_data once the HTTP call has delivered resp: [exc, df, printed], exc
\* being the exception that leaves fetch_data
fetch_data(resp) == FetchExcept(FetchTry(resp))

-----------------------------------------------------------------------------
(* calculate_changes *)

\* pct_change(periods=12)
YoYPeriods == 12

\* a - b in floating point
FSub(a, b) == IF a.isnan \/ b.isnan THEN NaN ELSE Num(a.v - b.v)

\* (a / b - 1) * 100 in floating point, kept as the exact quotient num/den:
\* NaN when an operand is NaN or for 0/0, infinite for a zero den otherwise
FPct(a, b) ==
    IF a.isnan \/ b.isnan \/ (a.v = 0 /\ b.v = 0)
    THEN [isnan |-> TRUE, num |-> 0, den |-> 0]
    ELSE [isnan |-> FALSE, num |-> a.v, den |-> b.v]

FNone == [isnan |-> TRUE, num |-> 0, den |-> 0]

RECURSIVE FFill(_)
\* Series.ffill(): a NaN takes the last value before it that is not NaN
FFill(v) ==
    IF Len(v) <= 1 THEN v
    ELSE LET front == FFill(SubSeq(v, 1, Len(v) - 1))
         IN  Append(front, IF v[Len(v)].isnan THEN front[Len(front)] ELSE v[Len(v)])

\* Series.diff()
Diff(v) == [i \in 1..Len(v) |-> IF i = 1 THEN NaN ELSE FSub(v[i], v[i - 1])]

\* Series.pct_change(periods) * 100; pad: this pandas pads NaN forward first
\* (fill_method='pad', the default before pandas 3)
PctChange(v, periods, pad) ==
    LET data == IF pad THEN FFill(v) ELSE v
    IN  [i \in 1..Len(v) |->
            IF i <= periods THEN FNone ELSE FPct(data[i], data[i - periods])]

\* SortGroup without the sort_values call: the group in the input's order
SortGroupUnsorted(group, swapTies) == group

\* group.copy().sort_values('Date'): rows of equal Date keep their order, or
\* come out reversed when the (unstable) sort swaps them
SortGroup(group, swapTies) ==
    IF swapTies THEN sort_values("Date", Reverse(group)) ELSE sort_values("Date", group)

\* lines 9-13 for one group: the sorted group with its three new columns
EnrichGroup(group, pad, swapTies) ==
    LET g == SortGroup(group, swapTies)
        v == [i \in 1..Len(g) |-> g[i].Value]
        mom == Diff(v)
        mompct == PctChange(v, 1, pad)
        yoy == PctChange(v, YoYPeriods, pad)
    IN  [i \in 1..Len(g) |->
            [SeriesID |-> g[i].SeriesID, SeriesName |-> g[i].SeriesName,
             Date |-> g[i].Date, Value |-> g[i].Value,
             Year |-> g[i].Year, Month |-> g[i].Month,
             MoMChange |-> mom[i], MoMPctChange |-> mompct[i], YoYPctChange |-> yoy[i]]]

\* the group keys of df.groupby('Series Name')
GroupKeys(rows) == {rows[i].SeriesName : i \in 1..Len(rows)}

RECURSIVE ConcatGroups(_, _, _, _)
\* the loop over the groups, in ascending key order, and pd.concat
ConcatGroups(rows, keys, pad, swapTies) ==
    IF keys = {} THEN <<>>
    ELSE LET name == CHOOSE k \in keys : \A o \in keys : NameRank(k) <= NameRank(o)
         IN  EnrichGroup(RowsOfSeries(rows, name), pad, swapTies)
                 \o ConcatGroups(rows, keys \ {name}, pad, swapTies)

\* calculate_changes without the groupby: diff and pct_change over the whole
\* table sorted by series and date, so that a lag crosses into the next series
calculate_changes_ungrouped(df, pad, swapTies) ==
    IF ~df.cols THEN [exc |-> "KeyError", df |-> EmptyFrame]
    ELSE IF df.rows = <<>> THEN [exc |-> "ValueError", df |-> EmptyFrame]
    ELSE [exc |-> "none",
          df |-> [cols |-> TRUE,
                  rows |-> EnrichGroup(sort_values("Series Name, Date", df.rows), pad, FALSE)]]

\* calculate_changes(df) under the build's pct_change padding and tie order:
\* [exc, df].  A frame without columns has no 'Series Name' to group by
\* (KeyError); a frame without rows has no group, and pd.concat([]) raises
\* ValueError
calculate_changes(df, pad, swapTies) ==
    IF ~df.cols THEN [exc |-> "KeyError", df |-> EmptyFrame]
    ELSE IF df.rows = <<>> THEN [exc |-> "ValueError", df |-> EmptyFrame]
    ELSE [exc |-> "none",
          df |-> [cols |-> TRUE,
                  rows |-> ConcatGroups(df.rows, GroupKeys(df.rows), pad, swapTies)]]

-----------------------------------------------------------------------------
(* get_latest_metrics *)

\* get_latest_metrics with iloc[0] for iloc[-1]
get_latest_metrics_first(df, series_name) ==
    IF ~df.cols THEN [kind |-> "KeyError"]
    ELSE LET series_data == RowsOfSeries(df.rows, series_name)
         IN  IF series_data = <<>> THEN [kind |-> "None"]
             ELSE [kind |-> "metrics",
                   date |-> series_data[1].Date,
                   value |-> series_data[1].Value,
                   mom_change |-> series_data[1].MoMChange,
                   mom_pct_change |-> series_data[1].MoMPctChange,
                   yoy_pct_change |-> series_data[1].YoYPctChange]

\* [kind]: "KeyError" (raised), "None" (returned None) or "metrics" (the dict)
get_latest_metrics(df, series_name) ==
    IF ~df.cols THEN [kind |-> "KeyError"]
    ELSE LET series_data == RowsOfSeries(df.rows, series_name)
         IN  IF series_data = <<>> THEN [kind |-> "None"]
             ELSE LET last == series_data[Len(series_data)]
                  IN  IF "MoMChange" \notin DOMAIN last THEN [kind |-> "KeyError"]
                      ELSE [kind |-> "metrics",
                            date |-> last.Date,
                            value |-> last.Value,
                            mom_change |-> last.MoMChange,
                            mom_pct_change |-> last.MoMPctChange,
                            yoy_pct_change |-> last.YoYPctChange]

-----------------------------------------------------------------------------
(* What the upstream can answer *)

JStr(s) == [t |-> "str", s |-> s]
JNull == [t |-> "null", s |-> <<>>]

Years == {<<"2", "0", "2", "0">>, <<"2", "0", "2", "1">>}

\* monthly codes, the annual average M13, the annual code A01, and two codes
\* that are not monthly codes but lie between "M01" and "M12" as text
Periods ==
    {M01, M12, <<"M", "1", "3">>, <<"A", "0", "1">>,
     <<"M", "0", "1", "1">>, <<"M", "0", "A">>}

\* a number, BLS's "-" for a missing value, the text "nan", and a JSON null
ValueTexts == {JStr(<<"3">>), JStr(<<"-">>), JStr(<<"n", "a", "n">>), JNull}

\* the plain monthly observation
PlainItem == [year |-> <<"2", "0", "2", "0">>, period |-> M01, value |-> JStr(<<"3">>)]

\* the observations that differ from the plain one in at most one field
Items ==
    {[PlainItem EXCEPT !.year = y] : y \in Years}
    \cup {[PlainItem EXCEPT !.period = p] : p \in Periods}
    \cup {[PlainItem EXCEPT !.value = v] : v \in ValueTexts}

\* a catalog series and one the catalog does not know
SeriesIDs == {"LNS14000000", "LNS12000000"}

RECURSIVE Sum(_)
Sum(counts) == IF counts = <<>> THEN 0 ELSE Head(counts) + Sum(Tail(counts))

\* the series list whose i-th entry has id ids[i] and the next counts[i]
\* observations of obs
SeriesList(ids, counts, obs) ==
    [i \in 1..Len(ids) |->
        [seriesID |-> ids[i],
         data |-> SubSeq(obs, Sum(SubSeq(counts, 1, i - 1)) + 1, Sum(SubSeq(counts, 1, i)))]]

Statuses == {"absent", "REQUEST_SUCCEEDED", "REQUEST_NOT_PROCESSED"}

NoBody == [status |-> "absent", message |-> FALSE, results |-> "absent", series |-> <<>>]

NoResponse == [kind |-> "pending", body |-> NoBody]

\* requests.post raises, raise_for_status raises, or response.json() raises
FailedResponses ==
    {[kind |-> k, body |-> NoBody] : k \in {"ConnectionError", "HTTPError", "JSONDecodeError"}}

\* a body without Results, with a null Results, or with Results but no series
ShapelessResponses ==
    {[kind |-> "json",
      body |-> [status |-> st, message |-> m, results |-> res, series |-> <<>>]] :
        st \in Statuses, m \in BOOLEAN, res \in {"absent", "null", "no_series"}}

\* a body with Results.series
SeriesResponse(st, m, list) ==
    [kind |-> "json",
     body |-> [status |-> st, message |-> m, results |-> "series", series |-> list]]

\* the names a consumer looks up: one of a catalog series the responses hold,
\* one of a catalog series they never hold
LookupNames == {"Unemployment Rate", "CPI (Seasonally Adjusted)"}

-----------------------------------------------------------------------------
(* The tables handed to calculate_changes directly *)

CalcNames == {"Unemployment Rate", "LNS12000000"}
CalcValues == {Num(0), Num(3), NaN}

IDOfName(n) == IF n = "Unemployment Rate" THEN "LNS14000000" ELSE n

CalcRow(n, d, v) ==
    [SeriesID |-> IDOfName(n), SeriesName |-> n, Date |-> d, Value |-> v,
     Year |-> d.year, Month |-> d.month]

\* the k-th month counted from January 2020
MonthK(k) == DateOf(2020 + ((k - 1) \div 12), ((k - 1) % 12) + 1)

SmallRows == {CalcRow(n, MonthK(k), v) : n \in CalcNames, k \in 1..2, v \in CalcValues}

\* n consecutive months of series name; the values repeat seed from offset, the
\* pattern moving on by one position each year
LongSeries(name, n, seed, offset) ==
    [k \in 1..n |->
        CalcRow(name, MonthK(k),
                seed[((((k - 1) % 12) + ((k - 1) \div 12) + offset) % SeedLen) + 1])]

\* two series of na and nb consecutive months, sorted as fetch_data sorts
\* or newest first as the upstream lists them
LongTable(na, nb, seed, newestFirst) ==
    LET t == LongSeries("LNS12000000", na, seed, 0)
                \o LongSeries("Unemployment Rate", nb, seed, 1)
    IN  IF newestFirst THEN Reverse(t) ELSE t

Frame(rows) == [cols |-> TRUE, rows |-> rows]

-----------------------------------------------------------------------------
(* The pipeline: load_data calls fetch_data, then calculate_changes; a       *)
(* consumer of the loaded table calls get_latest_metrics                    *)

NotCalled == [kind |-> "uncalled"]

Init ==
    /\ pc = "start"
    /\ response = NoResponse
    /\ raw = EmptyFrame
    /\ loaded = EmptyFrame
    /\ propagated = "none"
    /\ printed = <<>>
    /\ lookup = ""
    /\ latest = NotCalled

\* load_data calls fetch_data, which runs up to requests.post(...) and blocks
\* there for the upstream
Post ==
    /\ pc = "start"
    /\ pc' = "waiting"
    /\ UNCHANGED <<response, raw, loaded, propagated, printed, lookup, latest>>

\* fetch_data from the point where the HTTP call delivered r, to its return,
\* then load_data's call of calculate_changes unless df.empty; an exception
\* leaving fetch_data leaves load_data too
Deliver(r) ==
    \E f \in {fetch_data(r)} :
        /\ response' = r
        /\ raw' = f.df
        /\ propagated' = f.exc
        /\ printed' = f.printed
        /\ loaded' \in IF f.exc # "none" \/ IsEmpty(f.df) THEN {f.df}
                       ELSE {calculate_changes(f.df, pad, swapTies).df :
                                pad \in BOOLEAN, swapTies \in BOOLEAN}
        /\ pc' = IF f.exc = "none" THEN "loaded" ELSE "raised"

\* the upstream answers, or the connection fails, and load_data runs on
LoadData ==
    /\ pc = "waiting"
    /\ \/ \E r \in FailedResponses \cup ShapelessResponses : Deliver(r)
       \/ \E st \in Statuses, m \in BOOLEAN, k \in 0..MaxSize :
             \E ids \in [1..k -> SeriesIDs], counts \in [1..k -> 0..(MaxSize - k)] :
                /\ k + Sum(counts) <= MaxSize
                /\ \E obs \in [1..Sum(counts) -> Items] :
                      Deliver(SeriesResponse(st, m, SeriesList(ids, counts, obs)))
    /\ UNCHANGED <<lookup, latest>>

\* get_latest_metrics(df, name) on the table load_data returned
GetLatest ==
    /\ pc = "loaded"
    /\ \E name \in LookupNames :
          /\ lookup' = name
          /\ latest' = get_latest_metrics(loaded, name)
    /\ pc' = "shown"
    /\ UNCHANGED <<response, raw, loaded, propagated, printed>>

Next == Post \/ LoadData \/ GetLatest

Spec == Init /\ [][Next]_vars

\* the caller's own steps always run; nothing makes the upstream answer
LiveSpec ==
    Spec /\ WF_vars(Post) /\ WF_vars(GetLatest)

-----------------------------------------------------------------------------
(* calculate_changes called directly on a table: two monthly series in      *)
(* fetch_data's order or newest first, any small table in any order, a      *)
(* frame with no rows, and pd.DataFrame()                                   *)

CalcInit ==
    /\ pc = "calc_input"
    /\ response = NoResponse
    /\ \/ \E seed \in [1..SeedLen -> CalcValues], na, nb \in 0..MaxRows,
             newestFirst \in BOOLEAN :
               /\ na + nb > 0
               /\ raw = Frame(LongTable(na, nb, seed, newestFirst))
       \/ \E n \in 0..MaxSmall : \E t \in [1..n -> SmallRows] : raw = Frame(t)
       \/ raw = EmptyFrame
    /\ loaded = EmptyFrame
    /\ propagated = "none"
    /\ printed = <<>>
    /\ lookup = ""
    /\ latest = NotCalled

\* calculate_changes(raw), to its return or to the exception leaving it
CalculateChanges ==
    /\ pc = "calc_input"
    /\ \E c \in {calculate_changes(raw, pad, swapTies) :
                    pad \in BOOLEAN, swapTies \in BOOLEAN} :
          /\ loaded' = c.df
          /\ propagated' = c.exc
          /\ pc' = IF c.exc = "none" THEN "loaded" ELSE "raised"
    /\ UNCHANGED <<response, raw, printed, lookup, latest>>

CalcNext == CalculateChanges \/ GetLatest

CalcSpec == CalcInit /\ [][CalcNext]_vars

-----------------------------------------------------------------------------
(* Vocabulary of the properties *)

\* the rows of series s, in the table's order
PartitionOf(rows, s) == RowsOfSeries(rows, s)

\* calculate_changes has returned a table
Enriched == pc \in {"loaded", "shown"} /\ ~IsEmpty(loaded)

\* fetch_data is over
FetchOver == pc \in {"loaded", "shown", "raised"}

\* P holds of every row of the enriched table, taken as (its series' rows in
\* the table's order, its index among them)
EveryPartitionRow(P(_, _)) ==
    \A s \in GroupKeys(loaded.rows) :
        \A i \in 1..Len(PartitionOf(loaded.rows, s)) : P(PartitionOf(loaded.rows, s), i)

IsNumber(f) == ~f.isnan

\* the last value at or before index i that is a number, NaN if there is none
LastNumber(part, i) ==
    IF \E j \in 1..i : IsNumber(part[j].Value)
    THEN part[CHOOSE j \in 1..i :
                /\ IsNumber(part[j].Value)
                /\ \A k \in (j + 1)..i : ~IsNumber(part[k].Value)].Value
    ELSE NaN

\* y is the percentage change from the number b to the number a
IsChange(y, a, b) ==
    IF a.v = 0 /\ b.v = 0 THEN y.isnan
    ELSE ~y.isnan /\ y.num = a.v /\ y.den = b.v

\* the (series id, observation) pairs of a response body
Observations(body) ==
    UNION { {<<body.series[i].seriesID, body.series[i].data[j]>> :
                j \in 1..Len(body.series[i].data)} :
            i \in 1..Len(body.series) }

\* one of the codes "M01" .. "M12"
IsMonthlyCode(p) ==
    /\ Len(p) = 3
    /\ p[1] = "M"
    /\ AllDigits(Tail(p))
    /\ DecimalValue(Tail(p)) \in 1..12

\* the value is the text of a number
ParsesAsNumber(x) == x.t = "str" /\ AllDigits(x.s)

\* row r is the row of observation o: its series, year and month, dated the
\* first day of the month
RowOf(r, o) ==
    /\ r.SeriesID = o[1]
    /\ r.SeriesName = SeriesNameOf(o[1])
    /\ r.Year = DecimalValue(o[2].year)
    /\ r.Month = DecimalValue(Tail(o[2].period))
    /\ r.Date = [year |-> r.Year, month |-> r.Month, day |-> 1]

HasRow(o) == \E i \in 1..Len(raw.rows) : RowOf(raw.rows[i], o)

\* the body is a successful answer holding Results.series
Answered == FetchOver /\ response.kind = "json" /\ response.body.results = "series"

-----------------------------------------------------------------------------
(* C1: lags stay inside the series *)

\* every Value of the table is a number
AllNumbers(rows) == \A i \in 1..Len(rows) : IsNumber(rows[i].Value)

\* C1 as stated, on the tables whose values are all numbers: in every table
\* calculate_changes returns, for every row at index i of its series (rows of
\* one Series Name by ascending Date), MoM Change is undefined exactly at the
\* first row and otherwise is value[i] - value[i-1]; YoY % Change is undefined
\* exactly at the first 12 rows and otherwise computed from value[i] and
\* value[i-12] of that series.
C1_AsStated ==
    (Enriched /\ AllNumbers(raw.rows)) =>
        EveryPartitionRow(LAMBDA part, i :
            /\ i > 1 => DateLE(part[i - 1].Date, part[i].Date)
            /\ part[i].MoMChange.isnan <=> i = 1
            /\ i > 1 => part[i].MoMChange = Num(part[i].Value.v - part[i - 1].Value.v)
            /\ part[i].YoYPctChange.isnan <=> i <= 12
            /\ i > 12 => /\ part[i].YoYPctChange.num = part[i].Value.v
                         /\ part[i].YoYPctChange.den = part[i - 12].Value.v)

\* C1 amended: MoM Change is undefined at the first row of a series and where
\* value[i] or value[i-1] is NaN, and otherwise is value[i] - value[i-1]; YoY %
\* Change is undefined at the first 12 rows of a series; from the 13th on,
\* where value[i] and value[i-12] are numbers it is computed from these two
\* and is undefined only for 0/0, and where one of them is NaN it is undefined
\* or (pandas padding) computed from the last numbers at or before rows i and
\* i-12 of the same series.  No lag reads a row of another series.
C1_Amended ==
    Enriched =>
        EveryPartitionRow(LAMBDA part, i :
            /\ i > 1 => DateLE(part[i - 1].Date, part[i].Date)
            /\ i = 1 => part[i].MoMChange.isnan
            /\ i > 1 =>
                 IF IsNumber(part[i].Value) /\ IsNumber(part[i - 1].Value)
                 THEN part[i].MoMChange = Num(part[i].Value.v - part[i - 1].Value.v)
                 ELSE part[i].MoMChange.isnan
            /\ i <= 12 => part[i].YoYPctChange.isnan
            /\ i > 12 =>
                 IF IsNumber(part[i].Value) /\ IsNumber(part[i - 12].Value)
                 THEN IsChange(part[i].YoYPctChange, part[i].Value, part[i - 12].Value)
                 ELSE \/ part[i].YoYPctChange.isnan
                      \/ /\ IsNumber(LastNumber(part, i))
                         /\ IsNumber(LastNumber(part, i - 12))
                         /\ IsChange(part[i].YoYPctChange,
                                     LastNumber(part, i), LastNumber(part, i - 12)))

\* a returned table in which a series starts after row 12 of the table, its
\* first row undefined in both columns, while the series before it has a 13th
\* row with a year-over-year change
C1_Witness ==
    /\ pc = "loaded"
    /\ \E j \in 13..Len(loaded.rows) :
          /\ loaded.rows[j].SeriesName # loaded.rows[j - 1].SeriesName
          /\ loaded.rows[j].MoMChange.isnan
          /\ loaded.rows[j].YoYPctChange.isnan
          /\ ~loaded.rows[j - 1].YoYPctChange.isnan
          /\ loaded.rows[j - 1].YoYPctChange.num # loaded.rows[j - 1].YoYPctChange.den

-----------------------------------------------------------------------------
(* C6: calculate_changes adds columns only *)

\* the columns of the input table
BaseOf(r) ==
    [SeriesID |-> r.SeriesID, SeriesName |-> r.SeriesName, Date |-> r.Date,
     Value |-> r.Value, Year |-> r.Year, Month |-> r.Month]

KeyOf(r) == <<r.SeriesName, r.Date>>

\* how many rows of rows F maps to x
Count(F(_), rows, x) == Cardinality({i \in 1..Len(rows) : F(rows[i]) = x})

\* out has the rows of in with columns added: as many rows, every key and
\* every input row as often as in the input, each series by ascending Date
SameRowsSorted(in, out) ==
    /\ Len(out) = Len(in)
    /\ \A i \in 1..Len(in) :
          /\ Count(KeyOf, out, KeyOf(in[i])) = Count(KeyOf, in, KeyOf(in[i]))
          /\ Count(BaseOf, out, BaseOf(in[i])) = Count(BaseOf, in, BaseOf(in[i]))
    /\ \A s \in GroupKeys(out) :
          \A i \in 2..Len(PartitionOf(out, s)) :
              DateLE(PartitionOf(out, s)[i - 1].Date, PartitionOf(out, s)[i].Date)

\* C6 as stated: for every input table, calculate_changes returns a table
\* with the same number of rows and the same multiset of (Series Name, Date)
\* keys, only columns added, each series in ascending Date order.
C6_AsStated ==
    pc \in {"loaded", "shown", "raised"} =>
        /\ propagated = "none"
        /\ loaded.cols
        /\ SameRowsSorted(raw.rows, loaded.rows)

\* C6 amended: for every input table with at least one row, calculate_changes
\* returns a table with the same number of rows and the same multiset of
\* (Series Name, Date) keys, only columns added, each series in ascending Date
\* order even when the input was not sorted.
C6_Amended ==
    (pc \in {"loaded", "shown", "raised"} /\ ~IsEmpty(raw)) =>
        /\ propagated = "none"
        /\ loaded.cols
        /\ SameRowsSorted(raw.rows, loaded.rows)

\* a returned table whose input held a series out of Date order and a key twice
C6_Witness ==
    /\ pc = "loaded"
    /\ \E i, j \in 1..Len(raw.rows) :
          /\ i < j
          /\ raw.rows[i].SeriesName = raw.rows[j].SeriesName
          /\ DateLT(raw.rows[j].Date, raw.rows[i].Date)
    /\ \E i, j \in 1..Len(raw.rows) : i < j /\ KeyOf(raw.rows[i]) = KeyOf(raw.rows[j])
    /\ SameRowsSorted(raw.rows, loaded.rows)

-----------------------------------------------------------------------------
(* C7: the latest metrics are those of the newest row *)

\* C7: for a table returned by calculate_changes and a series with a row in
\* it, get_latest_metrics returns the values of a row of that series whose
\* Date is the maximum Date of the series.
C7_LatestIsNewest ==
    (pc = "shown" /\ Enriched /\ PartitionOf(loaded.rows, lookup) # <<>>) =>
        /\ latest.kind = "metrics"
        /\ \A i \in 1..Len(loaded.rows) :
              loaded.rows[i].SeriesName = lookup => DateLE(loaded.rows[i].Date, latest.date)
        /\ \E i \in 1..Len(loaded.rows) :
              /\ loaded.rows[i].SeriesName = lookup
              /\ loaded.rows[i].Date = latest.date
              /\ loaded.rows[i].Value = latest.value
              /\ loaded.rows[i].MoMChange = latest.mom_change
              /\ loaded.rows[i].MoMPctChange = latest.mom_pct_change
              /\ loaded.rows[i].YoYPctChange = latest.yoy_pct_change

\* metrics returned for a series whose last input row is not its newest
C7_Witness ==
    /\ pc = "shown"
    /\ latest.kind = "metrics"
    /\ PartitionOf(raw.rows, lookup) # <<>>
    /\ DateLT(PartitionOf(raw.rows, lookup)[Len(PartitionOf(raw.rows, lookup))].Date,
              latest.date)

-----------------------------------------------------------------------------
(* C2: fetch_data degrades to the empty table *)

\* C2: no exception leaves fetch_data, and a failed HTTP call, a non-2xx
\* status, a body that is not JSON and a body without Results or without
\* Results.series each make it return the empty table.
C2_DegradesToEmpty ==
    FetchOver =>
        /\ propagated = "none"
        /\ pc # "raised"
        /\ (\/ response.kind # "json"
            \/ response.body.results \in {"absent", "no_series"}) => raw = EmptyFrame

\* the spec's example: a status that is not success and no Results.series
C2_Witness ==
    /\ pc = "loaded"
    /\ response.kind = "json"
    /\ response.body.status = "REQUEST_NOT_PROCESSED"
    /\ ~response.body.message
    /\ response.body.results = "no_series"
    /\ raw = EmptyFrame
    /\ printed = <<"Error fetching data">>

-----------------------------------------------------------------------------
(* C3: only the codes M01..M12 are consumed *)

\* every value of the body is the text of a number
AllValuesParse(body) == \A o \in Observations(body) : ParsesAsNumber(o[2].value)

\* C3, on successful answers whose values all parse: every returned row is
\* the row of an observation with a code M01..M12, Month being the code's
\* number and Date the first of that month; an observation with any other
\* code gives no row, and every observation with a code M01..M12 has its row.
C3_MonthlyCodesOnly ==
    (Answered /\ response.body.status = "REQUEST_SUCCEEDED"
              /\ AllValuesParse(response.body)) =>
        /\ \A i \in 1..Len(raw.rows) :
              \E o \in Observations(response.body) :
                  IsMonthlyCode(o[2].period) /\ RowOf(raw.rows[i], o)
        /\ \A o \in Observations(response.body) :
              IsMonthlyCode(o[2].period) => HasRow(o)

-----------------------------------------------------------------------------
(* C4: a status that is not success is a soft error *)

\* every observation of the body has a code M01..M12 and a numeric value
AllPlain(body) ==
    \A o \in Observations(body) : IsMonthlyCode(o[2].period) /\ ParsesAsNumber(o[2].value)

\* C4, on bodies whose observations are all monthly and numeric: when the
\* status is not the success value, with or without a message field, every
\* observation of the Results.series present is returned.
C4_SoftError ==
    (Answered /\ response.body.status = "REQUEST_NOT_PROCESSED"
              /\ AllPlain(response.body)) =>
        \A o \in Observations(response.body) : HasRow(o)

-----------------------------------------------------------------------------
(* C5: a value that does not parse drops its observation alone *)

\* every code is one of M01..M12, or lies outside the text range M01..M12
AllCodesPlain(body) ==
    \A o \in Observations(body) :
        IsMonthlyCode(o[2].period) \/ ~InMonthlyRange(o[2].period)

\* C5, on successful answers whose codes are M01..M12 or out of range: the
\* returned rows are exactly the monthly observations whose value parses as a
\* number, and no row holds a null value.
C5_DropsOnlyUnparsed ==
    (Answered /\ response.body.status = "REQUEST_SUCCEEDED"
              /\ AllCodesPlain(response.body)) =>
        /\ \A o \in Observations(response.body) :
              (IsMonthlyCode(o[2].period) /\ ParsesAsNumber(o[2].value)) => HasRow(o)
        /\ \A i \in 1..Len(raw.rows) :
              /\ IsNumber(raw.rows[i].Value)
              /\ \E o \in Observations(response.body) :
                    /\ IsMonthlyCode(o[2].period)
                    /\ ParsesAsNumber(o[2].value)
                    /\ RowOf(raw.rows[i], o)

-----------------------------------------------------------------------------
(* C8: looking up a series without rows *)

\* C8: whenever the requested series has no row in the table it is given,
\* the empty table of a failed fetch included, get_latest_metrics returns
\* None and does not raise.
C8_AbsentNotRaised ==
    (pc = "shown" /\ PartitionOf(loaded.rows, lookup) = <<>>) => latest.kind = "None"

-----------------------------------------------------------------------------
(* C9: one row per series and date *)

\* C9: the table fetch_data returns holds at most one row for each
\* (Series Name, Date).
C9_OneRowPerKey ==
    FetchOver =>
        \A i, j \in 1..Len(raw.rows) :
            i < j => <<raw.rows[i].SeriesName, raw.rows[i].Date>>
                       # <<raw.rows[j].SeriesName, raw.rows[j].Date>>

-----------------------------------------------------------------------------
(* C10: fetch_data returns *)

\* C10: every call of fetch_data that has sent its request eventually
\* returns, whatever the upstream does.
C10_EventuallyReturns == (pc = "waiting") ~> FetchOver

=============================================================================
